---- MODULE Spec2Model ----
(***************************************************************************)
(* Tasks-up: the TodoList component (task list over a remote store, with a *)
(* one-second reminder loop).  Strings are sequences of one-character      *)
(* strings; the JavaScript value null is the sequence Null, which is no    *)
(* string.  An instant of local time is a record [day, ms]: the civil day  *)
(* number (days since 1970-01-01) and the milliseconds since that day's    *)
(* midnight, in a zone whose offset does not change.                       *)
(***************************************************************************)
EXTENDS Integers, Sequences, FiniteSets, TLC

(***************************************************************************)
(* Characters and the character classes of the regular expressions.        *)
(***************************************************************************)
Null == <<"null">>

DigitChars == <<"0", "1", "2", "3", "4", "5", "6", "7", "8", "9">>

IsDigit(c) == \E k \in 1..10 : DigitChars[k] = c

DigitVal(c) == (CHOOSE k \in 1..10 : DigitChars[k] = c) - 1

IsSep(c) == c \in {"/", "-"}

IsSpace(c) == c = " "

IsWordChar(c) == IsDigit(c) \/ c \in {"a", "b", "c", "d", "e", "f", "g", "m", "n", "o", "p",
                                      "s", "x", "y", "z", "A", "M", "P", "_"}

\* s[i], or the empty string past either end of s.
CharAt(s, i) == IF i >= 1 /\ i <= Len(s) THEN s[i] ELSE ""

\* The number of digits s holds from position i on, counted up to max (a greedy \d{..,max}).
DigitsRun(s, i, max) ==
  IF max >= 1 /\ IsDigit(CharAt(s, i))
  THEN IF max >= 2 /\ IsDigit(CharAt(s, i + 1))
       THEN IF max >= 3 /\ IsDigit(CharAt(s, i + 2))
            THEN IF max >= 4 /\ IsDigit(CharAt(s, i + 3)) THEN 4 ELSE 3
            ELSE 2
       ELSE 1
  ELSE 0

\* The number of blanks s holds from position i on (a greedy \s+).
RECURSIVE SpacesRun(_, _)
SpacesRun(s, i) == IF IsSpace(CharAt(s, i)) THEN 1 + SpacesRun(s, i + 1) ELSE 0

\* parseInt(.., 10) of the digits s[i .. i+n-1].
RECURSIVE ParseInt(_, _, _)
ParseInt(s, i, n) ==
  IF n = 0 THEN 0 ELSE 10 * ParseInt(s, i, n - 1) + DigitVal(s[i + n - 1])

\* (AM|PM) under the i flag, at position i: the marker in upper case, or "".
MeridiemAt(s, i) ==
  IF CharAt(s, i + 1) \in {"M", "m"}
  THEN IF CharAt(s, i) \in {"A", "a"} THEN "AM"
       ELSE IF CharAt(s, i) \in {"P", "p"} THEN "PM" ELSE ""
  ELSE ""

NoMatch == [at |-> 0, end |-> 0]

\* \d{1,2}[\/\-]\d{1,2}[\/\-]\d{2,4} tried at position i, piece by piece.  A \d{1,2}
\* that must be followed by a separator matches only a whole run of one or two digits.
DateYearAt(s, i, n1, j, n2, k, n3) ==
  IF n3 >= 2
  THEN [at |-> i, end |-> k + n3 - 1, d |-> <<i, n1>>, m |-> <<j, n2>>, y |-> <<k, n3>>]
  ELSE NoMatch

DateMonthAt(s, i, n1, j, n2) ==
  IF n2 >= 1 /\ IsSep(CharAt(s, j + n2))
  THEN DateYearAt(s, i, n1, j, n2, j + n2 + 1, DigitsRun(s, j + n2 + 1, 4))
  ELSE NoMatch

DateDayAt(s, i, n1) ==
  IF n1 >= 1 /\ IsSep(CharAt(s, i + n1))
  THEN DateMonthAt(s, i, n1, i + n1 + 1, DigitsRun(s, i + n1 + 1, 2))
  ELSE NoMatch

DateAt(s, i) == DateDayAt(s, i, DigitsRun(s, i, 2))

\* \d{1,2}:\d{2}\s?(AM|PM)? tried at position i (i flag): the time of parseUserDate.
\* c is the place of the colon, e the last place of the minutes and blank.
TimeEndAt(i, n, c, e, p) ==
  [at |-> i, end |-> e + (IF p = "" THEN 0 ELSE 2), h |-> <<i, n>>, mi |-> <<c + 1, 2>>,
   period |-> p]

TimeBlankAt(s, i, n, c, e) == TimeEndAt(i, n, c, e, MeridiemAt(s, e + 1))

TimeHourAt(s, i, n) ==
  IF n >= 1 /\ CharAt(s, i + n) = ":" /\ DigitsRun(s, i + n + 1, 2) = 2
  THEN TimeBlankAt(s, i, n, i + n, i + n + 2 + (IF IsSpace(CharAt(s, i + n + 3)) THEN 1 ELSE 0))
  ELSE NoMatch

TimeAt(s, i) == TimeHourAt(s, i, DigitsRun(s, i, 2))

\* m when it is a match, else other.
OrElse(m, other) == IF m.at # 0 THEN m ELSE other

\* The leftmost match of each pattern from position i on, as String.match finds it.
RECURSIVE FirstDate(_, _)
FirstDate(s, i) == IF i > Len(s) THEN NoMatch ELSE OrElse(DateAt(s, i), FirstDate(s, i + 1))

RECURSIVE FirstTime(_, _)
FirstTime(s, i) == IF i > Len(s) THEN NoMatch ELSE OrElse(TimeAt(s, i), FirstTime(s, i + 1))

\* (\d{1,2}[\/\-]\d{1,2}[\/\-]\d{2,4})(\s+\d{1,2}:\d{2}\s?(AM|PM)?)? tried at i: dm is
\* the date, sp the blanks after it and tm the time after them.
DateTimeOf(dm, sp, tm) ==
  IF dm.at = 0 THEN NoMatch
  ELSE IF sp >= 1 /\ tm.at # 0 THEN [at |-> dm.at, end |-> tm.end]
  ELSE [at |-> dm.at, end |-> dm.end]

DateTimeAfter(s, dm, sp) == DateTimeOf(dm, sp, TimeAt(s, dm.end + 1 + sp))

DateTimeFrom(s, dm) == DateTimeAfter(s, dm, SpacesRun(s, dm.end + 1))

DateTimeAt(s, i) == DateTimeFrom(s, DateAt(s, i))

RECURSIVE FirstDateTime(_, _)
FirstDateTime(s, i) ==
  IF i > Len(s) THEN NoMatch ELSE OrElse(DateTimeAt(s, i), FirstDateTime(s, i + 1))

\* \b\d{1,2}:\d{2}\s?(AM|PM)\b tried at i (i flag): the marker is mandatory.
TimeOnlyOf(s, i, tm) ==
  IF tm.at # 0 /\ tm.period # "" /\ ~IsWordChar(CharAt(s, i - 1))
     /\ ~IsWordChar(CharAt(s, tm.end + 1))
  THEN [at |-> i, end |-> tm.end]
  ELSE NoMatch

TimeOnlyAt(s, i) == TimeOnlyOf(s, i, TimeAt(s, i))

RECURSIVE FirstTimeOnly(_, _)
FirstTimeOnly(s, i) ==
  IF i > Len(s) THEN NoMatch ELSE OrElse(TimeOnlyAt(s, i), FirstTimeOnly(s, i + 1))

Matched(s, m) == IF m.at = 0 THEN Null ELSE SubSeq(s, m.at, m.end)

extractDateTime(text) == Matched(text, FirstDateTime(text, 1))

extractTimeOnly(text) == Matched(text, FirstTimeOnly(text, 1))

trimNothing(s) == s

RECURSIVE TrimStart(_)
TrimStart(s) == IF s # <<>> /\ IsSpace(Head(s)) THEN TrimStart(Tail(s)) ELSE s

RECURSIVE TrimEnd(_)
TrimEnd(s) ==
  IF s # <<>> /\ IsSpace(s[Len(s)]) THEN TrimEnd(SubSeq(s, 1, Len(s) - 1)) ELSE s

trim(s) == TrimEnd(TrimStart(s))

\* text with the match m replaced by "".
Replaced(text, m) ==
  IF m.at = 0 THEN text
  ELSE SubSeq(text, 1, m.at - 1) \o SubSeq(text, m.end + 1, Len(text))

removeDateTime(text) == trim(Replaced(text, FirstDateTime(text, 1)))

(***************************************************************************)
(* Local time: the Date constructor and the getters the component uses.    *)
(***************************************************************************)
MS_PER_DAY == 86400000

\* The civil day number of year y, month index m0 (0 = January) and day of month d;
\* like Date, month indices past 0..11 carry into the year and d may lie past the month.
DaysFromCivil(y, m0, d) ==
  LET yy  == y + (m0 \div 12)
      m   == (m0 % 12) + 1
      y2  == IF m <= 2 THEN yy - 1 ELSE yy
      era == y2 \div 400
      yoe == y2 - era * 400
      doy == (153 * (IF m > 2 THEN m - 3 ELSE m + 9) + 2) \div 5
      doe == yoe * 365 + (yoe \div 4) - (yoe \div 100) + doy
  IN  era * 146097 + doe - 719468 + (d - 1)

\* getFullYear(), getMonth() + 1 and getDate() of civil day number z.
CivilFromDays(z) ==
  LET z2  == z + 719468
      era == z2 \div 146097
      doe == z2 - era * 146097
      yoe == (doe - (doe \div 1460) + (doe \div 36524) - (doe \div 146096)) \div 365
      doy == doe - (365 * yoe + (yoe \div 4) - (yoe \div 100))
      mp  == (5 * doy + 2) \div 153
      m   == IF mp < 10 THEN mp + 3 ELSE mp - 9
  IN  [year  |-> yoe + era * 400 + (IF m <= 2 THEN 1 ELSE 0),
       month |-> m,
       date  |-> doy - ((153 * mp + 2) \div 5) + 1]

\* new Date(year, month, day, hours, minutes, 0, 0): fields past their range carry over.
DateOf(day, t) == [day |-> day + (t \div MS_PER_DAY), ms |-> t % MS_PER_DAY]

\* A year argument of 0 to 99 names a year of the 1900s.
Year1900(year) == IF year >= 0 /\ year <= 99 THEN 1900 + year ELSE year

NewDate(year, month, day, hours, minutes) ==
  DateOf(DaysFromCivil(Year1900(year), month, day), hours * 3600000 + minutes * 60000)

getHours(t) == t.ms \div 3600000

getMinutes(t) == (t.ms % 3600000) \div 60000

\* The instant ms milliseconds after t.
AddMs(t, ms) == DateOf(t.day, t.ms + ms)

FAR == 2 * MS_PER_DAY

\* a.getTime() - b.getTime() in milliseconds; instants two days or more apart give
\* FAR or -FAR, which lies on the same side of every bound the component compares with.
TimeDiff(a, b) ==
  IF a.day - b.day > 1 THEN FAR
  ELSE IF a.day - b.day < -1 THEN -FAR
  ELSE (a.day - b.day) * MS_PER_DAY + a.ms - b.ms

\* String(n).padStart(2, "0") for 0 <= n <= 99.
Pad2(n) == <<DigitChars[(n \div 10) + 1], DigitChars[(n % 10) + 1]>>

\* String(n) of a year 1000 <= n <= 9999.
Str4(n) == <<DigitChars[(n \div 1000) + 1], DigitChars[((n \div 100) % 10) + 1],
             DigitChars[((n \div 10) % 10) + 1], DigitChars[(n % 10) + 1]>>

getTodayDate(d) ==
  LET c == CivilFromDays(d.day)
  IN  Pad2(c.date) \o <<"-">> \o Pad2(c.month) \o <<"-">> \o Str4(c.year)

NoDate == [day |-> 0, ms |-> -1]

Num(s, g) == ParseInt(s, g[1], g[2])

To24NoNoon(h, period) == IF period = "PM" THEN h + 12 ELSE h

\* The hour of a 12-hour clock with its marker, on the 24-hour clock.
To24(h, period) ==
  IF period = "PM" /\ h # 12 THEN h + 12
  ELSE IF period = "AM" /\ h = 12 THEN 0
  ELSE h

FullYearAsWritten(y) == y

FullYear(y) == IF y < 100 THEN y + 2000 ELSE y

\* parseUserDate after its two matches.
ParsedDate(str, dateMatch, timeMatch) ==
  IF dateMatch.at = 0 THEN NoDate
  ELSE IF timeMatch.at = 0
       THEN NewDate(FullYear(Num(str, dateMatch.y)), Num(str, dateMatch.m) - 1,
                    Num(str, dateMatch.d), 0, 0)
       ELSE NewDate(FullYear(Num(str, dateMatch.y)), Num(str, dateMatch.m) - 1,
                    Num(str, dateMatch.d), To24(Num(str, timeMatch.h), timeMatch.period),
                    Num(str, timeMatch.mi))

parseUserDate(userDateStr) ==
  IF userDateStr = Null \/ userDateStr = <<>> THEN NoDate
  ELSE ParsedDate(userDateStr, FirstDate(userDateStr, 1), FirstTime(userDateStr, 1))

(***************************************************************************)
(* The component's state.                                                  *)
(***************************************************************************)
VARIABLES
  store,        \* the remote table: a set of rows [id, text, userDate, completed]
  nextId,       \* the id the store gives the next inserted row
  tasks,        \* useState tasks: the local list, as last loaded
  newTask,      \* useState newTask: the input field
  editingId,    \* useState editingId (0: null)
  editingText,  \* useState editingText
  editingDate,  \* useState editingDate
  toast,        \* useState toast
  notified,     \* notifiedTasksRef.current: the fired set
  fires,        \* per task id, how many times its reminder was dispatched
  shown,        \* the task ids a system Notification was constructed for
  played,       \* the task ids the audio cue was played for
  now,          \* the wall clock
  elapsed,      \* milliseconds since the component was mounted
  sinceTick,    \* milliseconds since the interval timer was armed or last ran
  mounted,      \* whether the component is mounted
  timers,       \* the active interval timers, each the task list its callback closes over
  notifApi,     \* window.Notification: "present", "absent", or "illegal" (its constructor throws)
  permission,   \* Notification.permission ("undefined" when the API is absent)
  writes,       \* the store writes awaiting their response
  loads,        \* the loadTasks calls awaiting their response
  ops,          \* how many times the user has acted on the page
  watch,        \* per task id, the due instant it has been waiting for since before its window
  trial,        \* a string taken through extractDateTime and parseUserDate
  filter        \* useState filter: "all", "active" or "completed"

vars == <<store, nextId, tasks, newTask, editingId, editingText, editingDate, toast,
          notified, fires, shown, played, now, elapsed, sinceTick, mounted, timers,
          notifApi, permission, writes, loads, ops, watch, trial, filter>>

INTERVAL_MS == 1000

WINDOW_MS == 5000

\* Bounds of the model.
MaxTasks == 2

MaxWrites == 1

MaxLoads == 1

MaxSeconds == 2

MaxOps == 3

MaxTimelySeconds == 12

MaxRacingLoads == 2

Ids == 1..MaxTasks

(***************************************************************************)
(* What the user types, and the rows an earlier session left in the store. *)
(***************************************************************************)
DueText == <<"2", "5", "/", "1", "2", "/", "2", "0", "2", "5", " ", "6", ":", "3", "0", " ", "P", "M">>

InFull == <<"a", " ">> \o DueText

InTime == <<"b", " ", "9", ":", "0", "0", " ", "A", "M">>

InPlain == <<"c">>

InBlank == <<" ", " ">>

InTwo == <<"2", "5", "/", "1", "2", "/", "2", "5", " ", "d", " ", "2", "6", "/", "1", "2", "/", "2", "5">>

Inputs == {InFull, InBlank}

\* More to type: a time with no marker, a time glued to a word, a marker glued to a
\* word, blanks and lower case, a blank kept at the end of the match, and a time
\* that follows a date at a distance.
InBare == <<"b", " ", "9", ":", "0", "0">>

InGlued == <<"x", "9", ":", "0", "0", " ", "A", "M">>

InMarkGlued == <<"f", " ", "1", "0", ":", "3", "0", " ", "P", "M", "s">>

InLower == <<"1", "-", "2", "-", "2", "5", " ", " ", "7", ":", "0", "5", "p", "m", " ", "z">>

InTrail == <<"d", " ", "3", "/", "4", "/", "2", "0", "2", "6", " ", "8", ":", "1", "5", " ", "e">>

InApart == <<"1", "/", "2", "/", "2", "0", "2", "5", " ", "x", " ", "9", ":", "0", "0", " ", "A", "M">>

InNoon == <<"g", " ", "1", "2", ":", "0", "0", "p", "m">>

DatedInputs == {InFull, InTime, InPlain, InBlank, InTwo, InBare, InGlued, InMarkGlued,
                InLower, InTrail, InApart, InNoon}

Edits == {[text |-> <<"e">>, date |-> <<"s", "o", "o", "n">>],
          [text |-> <<"e">>, date |-> DueText]}

Row(id, text, userDate, completed) ==
  [id |-> id, text |-> text, userDate |-> userDate, completed |-> completed]

InitStores == {{}, {Row(1, <<"a">>, DueText, FALSE), Row(2, <<"c">>, DueText, FALSE)}}

\* The offsets of the clock from the due instant of DueText when the component mounts:
\* one interval before the window opens, and less than one interval before it closes.
Starts == {-(WINDOW_MS + INTERVAL_MS), WINDOW_MS - INTERVAL_MS + 1}

NoToast == [title |-> "", body |-> <<>>]

(***************************************************************************)
(* The reminder: showToast, sendNotification and checkDueTasks.            *)
(***************************************************************************)
sendNotificationUnasked(task) ==
  IF notifApi \in {"absent", "illegal"} THEN "raise" ELSE "shown"

\* What sendNotification(task) does: "raise" (an exception leaves it), "shown" (a
\* Notification was constructed) or "none".
sendNotification(task) ==
  IF notifApi = "absent" THEN "raise"
  ELSE IF permission = "granted"
       THEN IF notifApi = "illegal" THEN "raise" ELSE "shown"
       ELSE "none"

\* What new Audio(..) and play() may do in a call of showToast: play ("ok"), throw
\* or reject ("fails").
AudioOutcomes == {"ok", "fails"}

\* showToast(task) on the check's running state c: the audio cue's failures are caught.
showToast(task, c) ==
  [c EXCEPT !.toast  = [title |-> "Task Reminder!", body |-> task.text],
            !.played = IF c.audio = "ok" THEN c.played \cup {task.id} ELSE c.played]

InWindow(timeDiff) == timeDiff >= -WINDOW_MS /\ timeDiff <= WINDOW_MS

\* The body of tasks.forEach for one task, on the check's running state c.
checkTask(task, at, c) ==
  IF task.completed \/ task.id \in c.notified THEN c
  ELSE LET taskDate == parseUserDate(task.userDate)
       IN  IF taskDate = NoDate THEN c
           ELSE IF ~InWindow(TimeDiff(taskDate, at)) THEN c
           ELSE LET t == showToast(task, c)
                    f == [t EXCEPT !.fires = [t.fires EXCEPT ![task.id] = @ + 1]]
                    n == sendNotification(task)
                IN  IF n = "raise" THEN [f EXCEPT !.raised = TRUE]
                    ELSE [f EXCEPT !.shown    = IF n = "shown" THEN @ \cup {task.id} ELSE @,
                                   !.notified = @ \cup {task.id}]

\* tasks.forEach from index i on: an exception leaves the loop.
RECURSIVE checkFrom(_, _, _, _)
checkFrom(list, i, at, c) ==
  IF i > Len(list) \/ c.raised THEN c
  ELSE checkFrom(list, i + 1, at, checkTask(list[i], at, c))

\* checkDueTasks() over the task list its closure holds, the audio doing snd.
checkDueTasks(list, snd) ==
  checkFrom(list, 1, now,
            [notified |-> notified, fires |-> fires, toast |-> toast, shown |-> shown,
             played |-> played, raised |-> FALSE, audio |-> snd])

\* The due instant task id waits for once setTasks(list) has run (c is what its check
\* left): it is kept while the mounted component holds the task, not completed, with
\* that due instant, and taken up when the task comes into the list, not completed and
\* never fired, no later than its window opens.
Due(list, id) ==
  IF \E i \in DOMAIN list : list[i].id = id /\ ~list[i].completed
  THEN parseUserDate(list[CHOOSE i \in DOMAIN list : list[i].id = id].userDate)
  ELSE NoDate

Kept(id, d, c) ==
  IF d = NoDate \/ c.raised THEN NoDate
  ELSE IF watch[id] = d THEN d
  ELSE IF fires[id] = 0 /\ TimeDiff(d, now) >= WINDOW_MS THEN d
  ELSE NoDate

Watched(list, c) == [id \in Ids |-> Kept(id, Due(list, id), c)]

clearIntervalForgotten(ts) == ts

\* clearInterval(interval) of the effect's cleanup: the timer that effect armed.
clearInterval(ts) == IF ts = <<>> THEN <<>> ELSE SubSeq(ts, 1, Len(ts) - 1)

\* What a check leaves in the component's state.
Checked(c) ==
  /\ notified' = c.notified
  /\ fires' = c.fires
  /\ toast' = c.toast
  /\ shown' = c.shown
  /\ played' = c.played

\* setTasks(list) and the effect on [tasks]: the cleanup of the previous effect, the
\* initial check, and the new interval timer.  An exception leaving the effect makes
\* React unmount the component.
SetTasks(list) ==
  \E snd \in AudioOutcomes :
  LET c == checkDueTasks(list, snd)
  IN  /\ tasks' = list
      /\ Checked(c)
      /\ watch' = Watched(list, c)
      /\ IF c.raised
         THEN /\ mounted' = FALSE
              /\ timers' = clearInterval(timers)
              /\ UNCHANGED sinceTick
         ELSE /\ mounted' = TRUE
              /\ timers' = Append(clearInterval(timers), list)
              /\ sinceTick' = 0

\* The interval timer's callback; an exception leaving it ends that run only.
Tick ==
  /\ sinceTick >= INTERVAL_MS
  /\ \E i \in DOMAIN timers, snd \in AudioOutcomes :
       Checked(checkDueTasks(timers[i], snd))
  /\ sinceTick' = 0
  /\ UNCHANGED <<filter, trial, ops, store, nextId, tasks, newTask, editingId, editingText, editingDate, now,
                 elapsed, mounted, timers, notifApi, permission, writes, loads>>
  /\ UNCHANGED watch

(***************************************************************************)
(* The store collaborator and the calls the component makes on it.         *)
(***************************************************************************)
RemoveAt(seq, i) == SubSeq(seq, 1, i - 1) \o SubSeq(seq, i + 1, Len(seq))

\* select("*").order("id", {ascending: false})
RECURSIVE SelectDesc(_)
SelectDesc(rows) ==
  IF rows = {} THEN <<>>
  ELSE LET top == CHOOSE r \in rows : \A q \in rows : q.id <= r.id
       IN  <<top>> \o SelectDesc(rows \ {top})

Request(kind, id, text, userDate, completed) ==
  [kind |-> kind, id |-> id, text |-> text, userDate |-> userDate, completed |-> completed]

AppliedWholeRow(q, rows) ==
  CASE q.kind = "insert" -> rows \cup {Row(nextId, q.text, q.userDate, q.completed)}
    [] q.kind \in {"edit", "toggle"} ->
         {IF r.id = q.id THEN Row(r.id, q.text, q.userDate, q.completed) ELSE r : r \in rows}
    [] q.kind = "delete" -> {r \in rows : r.id # q.id}
    [] q.kind = "clear"  -> {r \in rows : ~r.completed}

\* The rows of the store after it has carried out request q.
Applied(q, rows) ==
  CASE q.kind = "insert" -> rows \cup {Row(nextId, q.text, q.userDate, q.completed)}
    [] q.kind = "edit"   -> {IF r.id = q.id THEN [r EXCEPT !.text = q.text, !.userDate = q.userDate]
                             ELSE r : r \in rows}
    [] q.kind = "toggle" -> {IF r.id = q.id THEN [r EXCEPT !.completed = q.completed]
                             ELSE r : r \in rows}
    [] q.kind = "delete" -> {r \in rows : r.id # q.id}
    [] q.kind = "clear"  -> {r \in rows : ~r.completed}

\* Whether request q touches a row, so that the change stream reports it.
Touches(q, rows) ==
  CASE q.kind = "insert" -> TRUE
    [] q.kind \in {"edit", "toggle", "delete"} -> \E r \in rows : r.id = q.id
    [] q.kind = "clear" -> \E r \in rows : r.completed

NewLoad == [st |-> "sent", data |-> <<>>]

\* One more act of the user on the page.
Acted == ops < MaxOps /\ ops' = ops + 1

StampedWithTime(fullDate, timeOnly, at) ==
  IF fullDate = Null /\ timeOnly # Null THEN timeOnly ELSE fullDate

StampedDateAndTime(fullDate, timeOnly, at) ==
  IF fullDate = Null /\ timeOnly # Null THEN getTodayDate(at) \o <<" ">> \o timeOnly ELSE fullDate

\* addTask's date policy.
Stamped(fullDate, timeOnly, at) ==
  IF fullDate = Null /\ timeOnly # Null THEN getTodayDate(at) ELSE fullDate

finalDate(input, at) == Stamped(extractDateTime(input), extractTimeOnly(input), at)

\* The user leaves one of the strings inputs in the input field.
Typed(inputs) ==
  /\ mounted
  /\ Acted
  /\ \E s \in inputs : newTask' = s
  /\ UNCHANGED <<filter, trial, watch, store, nextId, tasks, editingId, editingText, editingDate, toast, notified,
                 fires, shown, played, now, elapsed, sinceTick, mounted, timers, notifApi,
                 permission, writes, loads>>

TypeNewTask == Typed(Inputs)

TypeDated == Typed(DatedInputs)

\* Inputs that hold a time and no date.
TimedInputs == {InTime, InNoon}

TypeTimed == Typed(TimedInputs)

\* addTask up to its await: empty input returns at once, else the insert is sent.
AddTask ==
  /\ mounted
  /\ Acted
  /\ IF trim(newTask) = <<>>
     THEN UNCHANGED writes
     ELSE /\ Len(writes) < MaxWrites
          /\ nextId <= MaxTasks
          /\ writes' = Append(writes, Request("insert", 0, removeDateTime(newTask),
                                              finalDate(newTask, now), FALSE))
  /\ UNCHANGED <<filter, trial, watch, store, nextId, tasks, newTask, editingId, editingText, editingDate, toast,
                 notified, fires, shown, played, now, elapsed, sinceTick, mounted, timers,
                 notifApi, permission, loads>>

StartEdit ==
  /\ mounted
  /\ Acted
  /\ \E i \in DOMAIN tasks :
       /\ ~tasks[i].completed
       /\ editingId' = tasks[i].id
       /\ editingText' = tasks[i].text
       /\ editingDate' = IF tasks[i].userDate = Null THEN <<>> ELSE tasks[i].userDate
  /\ UNCHANGED <<filter, trial, watch, store, nextId, tasks, newTask, toast, notified, fires, shown, played, now,
                 elapsed, sinceTick, mounted, timers, notifApi, permission, writes, loads>>

\* The two inputs of the row being edited.
TypeEdit ==
  /\ mounted
  /\ Acted
  /\ \E i \in DOMAIN tasks : tasks[i].id = editingId
  /\ \E e \in Edits :
       /\ editingText' = e.text
       /\ editingDate' = e.date
  /\ UNCHANGED <<filter, trial, watch, store, nextId, tasks, newTask, editingId, toast, notified, fires, shown,
                 played, now, elapsed, sinceTick, mounted, timers, notifApi, permission,
                 writes, loads>>

\* saveEdit(id) up to its await.
SaveEdit ==
  /\ mounted
  /\ Acted
  /\ \E i \in DOMAIN tasks : tasks[i].id = editingId
  /\ Len(writes) < MaxWrites
  /\ writes' = Append(writes, Request("edit", editingId, editingText, editingDate, FALSE))
  /\ UNCHANGED <<filter, trial, watch, store, nextId, tasks, newTask, editingId, editingText, editingDate, toast,
                 notified, fires, shown, played, now, elapsed, sinceTick, mounted, timers,
                 notifApi, permission, loads>>

CancelEdit ==
  /\ mounted
  /\ Acted
  /\ \E i \in DOMAIN tasks : tasks[i].id = editingId
  /\ editingId' = 0
  /\ editingText' = <<>>
  /\ editingDate' = <<>>
  /\ UNCHANGED <<filter, trial, watch, store, nextId, tasks, newTask, toast, notified, fires, shown, played, now,
                 elapsed, sinceTick, mounted, timers, notifApi, permission, writes, loads>>

DeleteTask ==
  /\ mounted
  /\ Acted
  /\ Len(writes) < MaxWrites
  /\ \E i \in DOMAIN tasks :
       /\ ~tasks[i].completed
       /\ writes' = Append(writes, Request("delete", tasks[i].id, <<>>, Null, FALSE))
  /\ UNCHANGED <<filter, trial, watch, store, nextId, tasks, newTask, editingId, editingText, editingDate, toast,
                 notified, fires, shown, played, now, elapsed, sinceTick, mounted, timers,
                 notifApi, permission, loads>>

\* toggleComplete(task), task being the local copy of the row.
ToggleComplete ==
  /\ mounted
  /\ Acted
  /\ Len(writes) < MaxWrites
  /\ \E i \in DOMAIN tasks :
       writes' = Append(writes, Request("toggle", tasks[i].id, <<>>, Null, ~tasks[i].completed))
  /\ UNCHANGED <<filter, trial, watch, store, nextId, tasks, newTask, editingId, editingText, editingDate, toast,
                 notified, fires, shown, played, now, elapsed, sinceTick, mounted, timers,
                 notifApi, permission, loads>>

ClearCompleted ==
  /\ mounted
  /\ Acted
  /\ Len(writes) < MaxWrites
  /\ writes' = Append(writes, Request("clear", 0, <<>>, Null, FALSE))
  /\ UNCHANGED <<filter, trial, watch, store, nextId, tasks, newTask, editingId, editingText, editingDate, toast,
                 notified, fires, shown, played, now, elapsed, sinceTick, mounted, timers,
                 notifApi, permission, loads>>

\* What follows the await of request q in the function that sent it.
Continued(q) ==
  /\ newTask' = IF q.kind = "insert" /\ mounted THEN <<>> ELSE newTask
  /\ editingId' = IF q.kind = "edit" /\ mounted THEN 0 ELSE editingId
  /\ editingText' = IF q.kind = "edit" /\ mounted THEN <<>> ELSE editingText
  /\ editingDate' = IF q.kind = "edit" /\ mounted THEN <<>> ELSE editingDate

(***************************************************************************)
(* The filter buttons and the list they leave on display.                  *)
(***************************************************************************)
Modes == {"all", "active", "completed"}

PassesSwapped(task, mode) ==
  IF mode = "all" THEN TRUE
  ELSE IF mode = "active" THEN task.completed
  ELSE IF mode = "completed" THEN ~task.completed
  ELSE TRUE

\* The callback of tasks.filter.
Passes(task, mode) ==
  IF mode = "all" THEN TRUE
  ELSE IF mode = "active" THEN ~task.completed
  ELSE IF mode = "completed" THEN task.completed
  ELSE TRUE

RECURSIVE FilterFrom(_, _, _)
FilterFrom(list, i, mode) ==
  IF i > Len(list) THEN <<>>
  ELSE IF Passes(list[i], mode) THEN <<list[i]>> \o FilterFrom(list, i + 1, mode)
  ELSE FilterFrom(list, i + 1, mode)

filteredTasks(list, mode) == FilterFrom(list, 1, mode)

SetFilter ==
  /\ mounted
  /\ Acted
  /\ \E mode \in Modes : mode # filter /\ filter' = mode
  /\ UNCHANGED <<trial, watch, store, nextId, tasks, newTask, editingId, editingText, editingDate,
                 toast, notified, fires, shown, played, now, elapsed, sinceTick, mounted, timers,
                 notifApi, permission, writes, loads>>

\* The store carries out a write and answers; the change stream makes the mounted
\* component call loadTasks, of which at most limit wait at a time.
Answered(limit) ==
  \E i \in DOMAIN writes :
    LET q == writes[i]
        heard == mounted /\ Touches(q, store)
    IN  /\ heard => Len(loads) < limit
        /\ store' = Applied(q, store)
        /\ nextId' = IF q.kind = "insert" THEN nextId + 1 ELSE nextId
        /\ loads' = IF heard THEN Append(loads, NewLoad) ELSE loads
        /\ writes' = RemoveAt(writes, i)
        /\ Continued(q)
        /\ UNCHANGED <<filter, trial, watch, ops, tasks, toast, notified, fires, shown, played, now, elapsed, sinceTick,
                       mounted, timers, notifApi, permission>>

WriteFailedKeepsInput ==
  \E i \in DOMAIN writes :
    /\ writes' = RemoveAt(writes, i)
    /\ UNCHANGED <<filter, trial, watch, ops, store, nextId, tasks, newTask, editingId, editingText,
                   editingDate, toast, notified, fires, shown, played, now, elapsed, sinceTick,
                   mounted, timers, notifApi, permission, loads>>

WriteDone == Answered(MaxLoads)

WriteDoneRacing == Answered(MaxRacingLoads)

\* The store answers a write with an error: nothing is written.
WriteFailed ==
  \E i \in DOMAIN writes :
    /\ writes' = RemoveAt(writes, i)
    /\ Continued(writes[i])
    /\ UNCHANGED <<filter, trial, watch, ops, store, nextId, tasks, toast, notified, fires, shown, played, now, elapsed,
                   sinceTick, mounted, timers, notifApi, permission, loads>>

\* The store reads the rows for a loadTasks call.
LoadServed ==
  \E i \in DOMAIN loads :
    /\ loads[i].st = "sent"
    /\ loads' = [loads EXCEPT ![i] = [st |-> "served", data |-> SelectDesc(store)]]
    /\ UNCHANGED <<filter, trial, watch, ops, store, nextId, tasks, newTask, editingId, editingText, editingDate, toast,
                   notified, fires, shown, played, now, elapsed, sinceTick, mounted, timers,
                   notifApi, permission, writes>>

\* loadTasks after its await, with data: setTasks(data) while the component is mounted.
LoadDone ==
  \E i \in DOMAIN loads :
    /\ loads[i].st = "served"
    /\ loads' = RemoveAt(loads, i)
    /\ IF mounted
       THEN SetTasks(loads[i].data)
       ELSE UNCHANGED <<tasks, toast, notified, fires, shown, played, sinceTick, mounted, timers,
                      watch>>
    /\ UNCHANGED <<filter, trial, ops, store, nextId, newTask, editingId, editingText, editingDate, now, elapsed,
                   notifApi, permission, writes>>

LoadFailedUnchecked ==
  \E i \in DOMAIN loads :
    /\ loads' = RemoveAt(loads, i)
    /\ IF mounted
       THEN SetTasks(<<>>)
       ELSE UNCHANGED <<tasks, toast, notified, fires, shown, played, sinceTick, mounted, timers,
                      watch>>
    /\ UNCHANGED <<filter, trial, ops, store, nextId, newTask, editingId, editingText, editingDate, now,
                   elapsed, notifApi, permission, writes>>

\* loadTasks after its await, with an error: nothing is set.
LoadFailed ==
  \E i \in DOMAIN loads :
    /\ loads' = RemoveAt(loads, i)
    /\ UNCHANGED <<filter, trial, watch, ops, store, nextId, tasks, newTask, editingId, editingText, editingDate, toast,
                   notified, fires, shown, played, now, elapsed, sinceTick, mounted, timers,
                   notifApi, permission, writes>>

(***************************************************************************)
(* The environment: the clock, the permission prompt, the toast, unmount.  *)
(***************************************************************************)
\* The clock moves on by one interval, up to limit seconds after the mount.
Forward(limit) ==
  /\ elapsed + INTERVAL_MS <= limit * 1000
  /\ now' = AddMs(now, INTERVAL_MS)
  /\ elapsed' = elapsed + INTERVAL_MS
  /\ sinceTick' = INTERVAL_MS
  /\ UNCHANGED <<filter, trial, ops, store, nextId, tasks, newTask, editingId, editingText, editingDate, toast,
                 notified, fires, shown, played, mounted, timers, notifApi, permission,
                 writes, loads>>
  /\ UNCHANGED watch

\* Time passes; the timer may run late.
Advance == Forward(MaxSeconds)

\* Time passes with every check at most one interval after the one before it.
TimelyAdvance ==
  /\ timers # <<>> => sinceTick = 0
  /\ Forward(MaxTimelySeconds)

\* The user answers the prompt of Notification.requestPermission().
PermissionAnswer ==
  /\ permission = "default"
  /\ permission' \in {"granted", "denied"}
  /\ UNCHANGED <<filter, trial, watch, ops, store, nextId, tasks, newTask, editingId, editingText, editingDate, toast,
                 notified, fires, shown, played, now, elapsed, sinceTick, mounted, timers,
                 notifApi, writes, loads>>

\* setToast(null): the five-second timeout of showToast, or a click on the toast.
HideToast ==
  /\ mounted
  /\ Acted
  /\ toast # NoToast
  /\ toast' = NoToast
  /\ UNCHANGED <<filter, trial, watch, store, nextId, tasks, newTask, editingId, editingText, editingDate,
                 notified, fires, shown, played, now, elapsed, sinceTick, mounted, timers,
                 notifApi, permission, writes, loads>>

\* The component is unmounted: the cleanup of the timer effect runs.
Unmount ==
  /\ mounted
  /\ Acted
  /\ mounted' = FALSE
  /\ timers' = clearInterval(timers)
  /\ UNCHANGED <<filter, trial, store, nextId, tasks, newTask, editingId, editingText, editingDate, toast,
                 notified, fires, shown, played, now, elapsed, sinceTick, notifApi, permission, writes, loads>>
  /\ watch' = [id \in Ids |-> NoDate]

(***************************************************************************)
(* The specifications.                                                     *)
(***************************************************************************)
MaxId(rows) == IF rows = {} THEN 0 ELSE CHOOSE n \in {r.id : r \in rows} : \A r \in rows : r.id <= n

(***************************************************************************)
(* Strings with a date, put together from a spelling of each field.        *)
(***************************************************************************)
DaySpellings == {[s |-> <<"1">>, v |-> 1], [s |-> <<"0", "9">>, v |-> 9],
                 [s |-> <<"2", "9">>, v |-> 29], [s |-> <<"3", "1">>, v |-> 31],
                 [s |-> <<"0">>, v |-> 0]}

MonthSpellings == {[s |-> <<"2">>, v |-> 2], [s |-> <<"0", "4">>, v |-> 4],
                   [s |-> <<"1", "2">>, v |-> 12], [s |-> <<"1", "3">>, v |-> 13]}

YearSpellings == {[s |-> <<"2", "5">>, v |-> 25], [s |-> <<"2", "0", "2", "5">>, v |-> 2025],
                  [s |-> <<"2", "0", "2", "4">>, v |-> 2024], [s |-> <<"1", "2", "3">>, v |-> 123]}

Clock(s, timed, hour, minute, period) ==
  [s |-> s, timed |-> timed, hour |-> hour, minute |-> minute, period |-> period]

TimeSpellings ==
  {Clock(<<>>, FALSE, 0, 0, ""),
   Clock(<<" ", "6", ":", "3", "0">>, TRUE, 6, 30, ""),
   Clock(<<" ", "6", ":", "3", "0", " ", "P", "M">>, TRUE, 6, 30, "PM"),
   Clock(<<" ", "1", "2", ":", "0", "5", " ", "A", "M">>, TRUE, 12, 5, "AM"),
   Clock(<<" ", "1", "2", ":", "0", "5", "P", "M">>, TRUE, 12, 5, "PM"),
   Clock(<<" ", " ", "0", "9", ":", "0", "0", " ", "a", "m">>, TRUE, 9, 0, "AM"),
   Clock(<<" ", "1", "3", ":", "0", "0", " ", "P", "M">>, TRUE, 13, 0, "PM"),
   Clock(<<" ", "2", "3", ":", "5", "9">>, TRUE, 23, 59, ""),
   Clock(<<" ", "2", "4", ":", "0", "0">>, TRUE, 24, 0, ""),
   Clock(<<" ", "7", ":", "6", "0">>, TRUE, 7, 60, "")}

\* The hours 0 to 13 at half past, with no marker and with each marker.
HourText(h) == IF h < 10 THEN <<DigitChars[h + 1]>> ELSE Pad2(h)

Markers == {[s |-> <<>>, p |-> ""], [s |-> <<" ", "A", "M">>, p |-> "AM"],
            [s |-> <<" ", "P", "M">>, p |-> "PM"], [s |-> <<"a", "m">>, p |-> "AM"],
            [s |-> <<"p", "m">>, p |-> "PM"]}

HourSpellings ==
  {Clock(<<" ">> \o HourText(h) \o <<":", "3", "0">> \o k.s, TRUE, h, 30, k.p) :
     h \in 0..13, k \in Markers}

Separators == {<<"/">>, <<"-">>}

Fronts == {<<>>, <<"x", " ">>}

Backs == {<<>>, <<",", " ", "y">>}

\* A trial is a text, the date and time it spells (spelt) inside the words around
\* them, and what extractDateTime and then parseUserDate make of it.
Trial(front, d, s1, m, s2, y, t, back) ==
  [stage |-> "typed",
   text  |-> front \o d.s \o s1 \o m.s \o s2 \o y.s \o t.s \o back,
   spelt |-> [text |-> d.s \o s1 \o m.s \o s2 \o y.s \o t.s,
              day |-> d.v, month |-> m.v, year |-> y.v,
              timed |-> t.timed, hour |-> t.hour, minute |-> t.minute, period |-> t.period],
   date  |-> Null,
   due   |-> NoDate]

NoSpelt == [text |-> Null, day |-> 0, month |-> 0, year |-> 0,
            timed |-> FALSE, hour |-> 0, minute |-> 0, period |-> ""]

Undated(text) ==
  [stage |-> "typed", text |-> text, spelt |-> NoSpelt, date |-> Null, due |-> NoDate]

Trials ==
  {Trial(front, d, s1, m, s2, y, t, back) :
     front \in Fronts, d \in DaySpellings, s1 \in Separators, m \in MonthSpellings,
     s2 \in Separators, y \in YearSpellings, t \in TimeSpellings, back \in Backs}
  \cup {Undated(InTime), Undated(InPlain), Undated(<<"1", "/", "2", "/", "3">>)}
  \cup {Trial(<<>>, [s |-> <<"3", "1">>, v |-> 31], <<"-">>, [s |-> <<"0", "1">>, v |-> 1], <<"-">>,
               [s |-> <<"2", "6">>, v |-> 26], t, <<>>) : t \in HourSpellings}

NoTrial == Undated(<<>>)

\* extractDateTime(text), and then parseUserDate of what it returned.
Extract ==
  /\ trial.stage = "typed"
  /\ trial' = [trial EXCEPT !.stage = "extracted", !.date = extractDateTime(trial.text)]
  /\ UNCHANGED <<store, nextId, tasks, newTask, editingId, editingText, editingDate, toast,
                 notified, fires, shown, played, now, elapsed, sinceTick, mounted, timers,
                 notifApi, permission, writes, loads, ops, watch, filter>>

Parse ==
  /\ trial.stage = "extracted"
  /\ trial' = [trial EXCEPT !.stage = "parsed", !.due = parseUserDate(trial.date)]
  /\ UNCHANGED <<store, nextId, tasks, newTask, editingId, editingText, editingDate, toast,
                 notified, fires, shown, played, now, elapsed, sinceTick, mounted, timers,
                 notifApi, permission, writes, loads, ops, watch, filter>>

\* The component just mounted at one of the instants nows: the effects have armed the
\* timer on the empty list and sent the first loadTasks.
Mounted(nows) ==
  /\ store \in InitStores
  /\ nextId = MaxId(store) + 1
  /\ tasks = <<>>
  /\ newTask = <<>>
  /\ editingId = 0
  /\ editingText = <<>>
  /\ editingDate = <<>>
  /\ toast = NoToast
  /\ notified = {}
  /\ fires = [id \in Ids |-> 0]
  /\ shown = {}
  /\ played = {}
  /\ now \in nows
  /\ elapsed = 0
  /\ sinceTick = 0
  /\ mounted = TRUE
  /\ timers = << <<>> >>
  /\ notifApi \in {"present", "absent", "illegal"}
  /\ permission \in CASE notifApi = "present" -> {"default", "granted", "denied"}
                    [] notifApi = "illegal" -> {"granted"}
                    [] notifApi = "absent"  -> {"undefined"}
  /\ writes = <<>>
  /\ loads = <<NewLoad>>
  /\ ops = 0
  /\ watch = [id \in Ids |-> NoDate]
  /\ filter = "all"

Init ==
  /\ Mounted({AddMs(parseUserDate(DueText), d) : d \in Starts})
  /\ trial = NoTrial

Step ==
  \/ TypeNewTask
  \/ AddTask
  \/ StartEdit
  \/ TypeEdit
  \/ SaveEdit
  \/ CancelEdit
  \/ DeleteTask
  \/ ToggleComplete
  \/ ClearCompleted
  \/ WriteDone
  \/ WriteFailed
  \/ LoadServed
  \/ LoadDone
  \/ LoadFailed
  \/ Tick
  \/ Advance
  \/ PermissionAnswer
  \/ HideToast
  \/ Unmount

Next == Step

Spec == Init /\ [][Next]_vars

\* The component under timely checks: the reminder loop, the loads, and the user
\* completing tasks or leaving.
TimelyNext ==
  \/ ToggleComplete
  \/ WriteDone
  \/ WriteFailed
  \/ LoadServed
  \/ LoadDone
  \/ LoadFailed
  \/ Tick
  \/ TimelyAdvance
  \/ PermissionAnswer
  \/ Unmount

SpecTimely == Init /\ [][TimelyNext]_vars

\* extractDateTime and parseUserDate on their own, over the strings of Trials.
InitParse ==
  /\ Mounted({parseUserDate(DueText)})
  /\ store = {}
  /\ notifApi = "present"
  /\ permission = "default"
  /\ trial \in Trials

ParseNext ==
  \/ Extract
  \/ Parse

SpecParse == InitParse /\ [][ParseNext]_vars

\* The instants at which tasks are added: a morning early in a month, and the last
\* minute of a year.
AddTimes == {NewDate(2026, 2, 5, 9, 0), NewDate(2025, 11, 31, 23, 59)}

\* Adding tasks: the input field, addTask, the store and the reloads.
InitAdd ==
  /\ Mounted(AddTimes)
  /\ store = {}
  /\ notifApi = "present"
  /\ permission = "default"
  /\ trial = NoTrial

AddNext ==
  \/ TypeDated
  \/ AddTask
  \/ WriteDone
  \/ WriteFailed
  \/ LoadServed
  \/ LoadDone
  \/ LoadFailed

SpecAdd == InitAdd /\ [][AddNext]_vars

\* The filter buttons over lists whose tasks are completed, restored and cleared.
InitFilter ==
  /\ Mounted(AddTimes)
  /\ notifApi = "present"
  /\ permission = "default"
  /\ trial = NoTrial

FilterNext ==
  \/ SetFilter
  \/ ToggleComplete
  \/ ClearCompleted
  \/ WriteDone
  \/ LoadServed
  \/ LoadDone

SpecFilter == InitFilter /\ [][FilterNext]_vars

\* Writes that follow one another closely, so that the loads they bring about wait
\* at the same time; every write and every load succeeds.
RaceNext ==
  \/ ToggleComplete
  \/ DeleteTask
  \/ WriteDoneRacing
  \/ LoadServed
  \/ LoadDone

SpecRace == InitFilter /\ [][RaceNext]_vars

\* Editing and completing the tasks of the list.
EditNext ==
  \/ StartEdit
  \/ TypeEdit
  \/ SaveEdit
  \/ ToggleComplete
  \/ WriteDone
  \/ WriteFailed
  \/ LoadServed
  \/ LoadDone

SpecEdit == InitFilter /\ [][EditNext]_vars

\* The instants at which tasks with a time and no date are added: just after a
\* midnight, just before 9:00 AM, and just before a midnight.
NightTimes ==
  {AddMs(NewDate(2026, 2, 5, 0, 0), 1000),
   AddMs(NewDate(2026, 2, 5, 8, 59), 58000),
   AddMs(NewDate(2026, 2, 4, 23, 59), 58000)}

\* Adding such tasks while the reminder loop runs.
InitNight ==
  /\ Mounted(NightTimes)
  /\ store = {}
  /\ trial = NoTrial

NightNext ==
  \/ TypeTimed
  \/ AddTask
  \/ WriteDone
  \/ LoadServed
  \/ LoadDone
  \/ Tick
  \/ Advance

SpecNight == InitNight /\ [][NightNext]_vars

(***************************************************************************)
(* The claims.                                                             *)
(***************************************************************************)
Range(seq) == {seq[i] : i \in DOMAIN seq}

\* Whether the check at instant at, with the fired set done, must fire task t.
IsDue(t, at, done) ==
  /\ ~t.completed
  /\ t.id \notin done
  /\ parseUserDate(t.userDate) # NoDate
  /\ TimeDiff(parseUserDate(t.userDate), at) >= -5000
  /\ TimeDiff(parseUserDate(t.userDate), at) <= 5000

FiredNow(id) == fires'[id] = fires[id] + 1

\* C1: within one session no task id is fired more than once.
C1_AtMostOnce == \A id \in Ids : fires[id] <= 1

\* C2: on every tick a task of the checked list fires if and only if it is not
\* completed, not in the fired set, has a parseable due date and is within 5000 ms
\* of it (bounds included); a completed or dateless task is neither fired nor added
\* to the fired set.
C2_FiresIffDue ==
  [][Tick => \A list \in Range(timers) : \A t \in Range(list) :
               /\ FiredNow(t.id) <=> IsDue(t, now, notified)
               /\ (t.completed \/ parseUserDate(t.userDate) = NoDate)
                    => (fires'[t.id] = fires[t.id] /\ (t.id \in notified' => t.id \in notified))]_vars

\* C3: a task that stays in the list, not completed, through its whole window while
\* checks come at most a second apart is fired by a check inside the window.
C3_FiredByWindowEnd ==
  \A id \in Ids :
    (watch[id] # NoDate /\ TimeDiff(watch[id], now) < -5000) => fires[id] >= 1

\* C4: when a task fires, a failing channel blocks nothing: the toast is shown, the id
\* joins the fired set in that tick, and the rest of the list is still checked.
C4_ChannelsIsolated ==
  [][\A id \in Ids : FiredNow(id) =>
        /\ toast' # NoToast
        /\ id \in notified'
        /\ Tick => \A list \in Range(timers) : \A t \in Range(list) :
                     IsDue(t, now, notified) => FiredNow(t.id)]_vars

\* C5: with permission denied or default a fire constructs no system notification,
\* shows the toast of a fired task and adds the id to the fired set.
C5_DeniedStillToasts ==
  [][\A id \in Ids : (FiredNow(id) /\ permission \in {"denied", "default"}) =>
        /\ shown' = shown
        /\ toast' # NoToast
        /\ \E t \in Range(tasks') : FiredNow(t.id) /\ toast'.body = t.text
        /\ id \in notified']_vars

C5_Witness ==
  /\ permission \in {"denied", "default"}
  /\ \E id \in Ids : fires[id] = 1 /\ id \in notified /\ id \notin shown
  /\ toast # NoToast

\* C6: at most one interval timer is active, and none once the component is unmounted.
C6_OneTimer == Len(timers) <= 1 /\ (~mounted => timers = <<>>)

C6_Witness == ~mounted /\ tasks # <<>> /\ timers = <<>> /\ \A id \in Ids : fires[id] = 0

\* C7: every stored task whose userDate is present has a userDate that parseUserDate
\* parses.
C7_StoredDatesParse ==
  \A r \in store : (r.userDate # Null /\ r.userDate # <<>>) => parseUserDate(r.userDate) # NoDate

(***************************************************************************)
(* The fields a trial spells, read as the specification reads them: a year  *)
(* of two digits is a year of the 2000s, and an hour with a marker is an    *)
(* hour of the 12-hour clock.                                              *)
(***************************************************************************)
SpeltYear(sp) == IF sp.year < 100 THEN 2000 + sp.year ELSE sp.year

SpeltHour(sp) ==
  IF sp.period = "PM" THEN (sp.hour % 12) + 12
  ELSE IF sp.period = "AM" THEN sp.hour % 12
  ELSE sp.hour

IsLeap(y) == (y % 4 = 0 /\ y % 100 # 0) \/ y % 400 = 0

DaysIn(y, m) ==
  IF m \in {4, 6, 9, 11} THEN 30
  ELSE IF m = 2 THEN (IF IsLeap(y) THEN 29 ELSE 28)
  ELSE 31

\* The spelt fields name a day of the calendar and a time of the clock.
SpeltValid(sp) ==
  /\ sp.month \in 1..12
  /\ sp.day >= 1 /\ sp.day <= DaysIn(SpeltYear(sp), sp.month)
  /\ sp.minute \in 0..59
  /\ IF sp.period = "" THEN sp.hour \in 0..23 ELSE sp.hour \in 1..12

SameFields(due, sp) ==
  /\ CivilFromDays(due.day) = [year |-> SpeltYear(sp), month |-> sp.month, date |-> sp.day]
  /\ getHours(due) = SpeltHour(sp)
  /\ getMinutes(due) = sp.minute

Extracted == trial.stage = "parsed" /\ trial.date # Null

\* C8 as stated: whenever extractDateTime returns a substring, parseUserDate of it is
\* an instant with the day, month, year and time the substring spells.
C8_SameFieldsAlways ==
  Extracted => (trial.due # NoDate /\ SameFields(trial.due, trial.spelt))

\* C8: whenever extractDateTime returns a substring, parseUserDate of it is an
\* instant (never null), and when the substring spells a day of the calendar and a
\* time of the clock the instant has that day, month, year, hour and minute.
C8_RoundTrip ==
  Extracted =>
    /\ trial.due # NoDate
    /\ trial.spelt # NoSpelt =>
          /\ trial.date = trial.spelt.text
          /\ SpeltValid(trial.spelt) => SameFields(trial.due, trial.spelt)

C8_Witness ==
  /\ Extracted
  /\ SpeltValid(trial.spelt)
  /\ trial.spelt.year < 100
  /\ trial.spelt.period = "PM"
  /\ trial.text # trial.date
  /\ SameFields(trial.due, trial.spelt)

(***************************************************************************)
(* The stored date of section 4.1, said without the matching procedure: a  *)
(* stretch of the input is a date when its characters have the date's      *)
(* shape.                                                                  *)
(***************************************************************************)
AllDigits(w) == \A i \in DOMAIN w : IsDigit(w[i])

AllBlank(w) == \A i \in DOMAIN w : IsSpace(w[i])

\* <1-2 digit><sep><1-2 digit><sep><2-4 digit>
IsDateText(w) ==
  \E a \in 1..2, b \in 1..2, c \in 2..4 :
    /\ Len(w) = a + b + c + 2
    /\ AllDigits(SubSeq(w, 1, a)) /\ IsSep(w[a + 1])
    /\ AllDigits(SubSeq(w, a + 2, a + b + 1)) /\ IsSep(w[a + b + 2])
    /\ AllDigits(SubSeq(w, a + b + 3, a + b + c + 2))

IsMarker(w) == Len(w) = 2 /\ w[1] \in {"A", "a", "P", "p"} /\ w[2] \in {"M", "m"}

\* <1-2 digit>:<2 digit>
IsClockText(w) ==
  \E a \in 1..2 :
    /\ Len(w) = a + 3
    /\ AllDigits(SubSeq(w, 1, a)) /\ w[a + 1] = ":" /\ AllDigits(SubSeq(w, a + 2, a + 3))

\* a clock time and its marker, with at most one blank between them
IsMarkedTime(w) ==
  \E n \in 4..5 :
    /\ Len(w) > n
    /\ IsClockText(SubSeq(w, 1, n))
    /\ \/ IsMarker(SubSeq(w, n + 1, Len(w)))
       \/ IsSpace(w[n + 1]) /\ IsMarker(SubSeq(w, n + 2, Len(w)))

\* a clock time, with or without a marker or a blank after it
IsTimeText(w) ==
  IsClockText(w) \/ IsMarkedTime(w) \/ (IsSpace(w[Len(w)]) /\ IsClockText(SubSeq(w, 1, Len(w) - 1)))

\* a date, or a date, blanks and a time
IsStamp(w) ==
  \E k \in 6..10 :
    /\ Len(w) >= k
    /\ IsDateText(SubSeq(w, 1, k))
    /\ \/ Len(w) = k
       \/ \E j \in (k + 1)..(Len(w) - 1) :
            AllBlank(SubSeq(w, k + 1, j)) /\ IsTimeText(SubSeq(w, j + 1, Len(w)))

Stamps(s) == {p \in (1..Len(s)) \X (1..Len(s)) : p[1] <= p[2] /\ IsStamp(SubSeq(s, p[1], p[2]))}

\* The first date of s, taken as far as it goes.
FirstStamp(s) ==
  CHOOSE p \in Stamps(s) : \A q \in Stamps(s) : p[1] < q[1] \/ (p[1] = q[1] /\ p[2] >= q[2])

\* s holds a time with a marker that stands apart from the words around it.
HasMarkedTime(s) ==
  \E i \in 1..Len(s), j \in 1..Len(s) :
    /\ i <= j
    /\ IsMarkedTime(SubSeq(s, i, j))
    /\ ~IsWordChar(CharAt(s, i - 1))
    /\ ~IsWordChar(CharAt(s, j + 1))

\* w is DD-MM-YYYY of the local day of instant at.
IsDayOf(w, at) ==
  /\ Len(w) = 10 /\ w[3] = "-" /\ w[6] = "-"
  /\ AllDigits(SubSeq(w, 1, 2)) /\ AllDigits(SubSeq(w, 4, 5)) /\ AllDigits(SubSeq(w, 7, 10))
  /\ CivilFromDays(at.day) = [year |-> ParseInt(w, 7, 4), month |-> ParseInt(w, 4, 2),
                              date |-> ParseInt(w, 1, 2)]

PolicyDate(userDate, input, at) ==
  IF Stamps(input) # {}
  THEN userDate = SubSeq(input, FirstStamp(input)[1], FirstStamp(input)[2])
  ELSE IF HasMarkedTime(input) THEN IsDayOf(userDate, at)
  ELSE userDate = Null

Sent == Len(writes') = Len(writes) + 1

Inserted == {r \in store' : \A o \in store : o.id # r.id}

\* C9: the insert addTask sends carries the first full date of the input verbatim,
\* else today's date as DD-MM-YYYY when the input holds a time with a marker, else
\* null, and completed = false; the store keeps the row as sent.
C9_DatePolicy ==
  [][/\ (Sent /\ writes'[Len(writes')].kind = "insert") =>
          /\ PolicyDate(writes'[Len(writes')].userDate, newTask, now)
          /\ writes'[Len(writes')].completed = FALSE
     /\ \A r \in Inserted :
          \E i \in DOMAIN writes :
            /\ writes[i].kind = "insert"
            /\ r.userDate = writes[i].userDate
            /\ r.text = writes[i].text
            /\ r.completed = FALSE]_vars

C9_Witness ==
  /\ \E r \in store : r.text = InTime /\ IsDayOf(r.userDate, now) /\ ~r.completed
  /\ tasks # <<>>

\* C10: the stored text of a task created by addTask holds nothing that
\* extractDateTime or extractTimeOnly recognises.
C10_TextClean ==
  \A r \in store : extractDateTime(r.text) = Null /\ extractTimeOnly(r.text) = Null

(***************************************************************************)
(* The hour of the parsed instant, counted from the midnight that opens    *)
(* the spelt day.                                                          *)
(***************************************************************************)
HoursPastMidnight(due, sp) ==
  (due.day - DaysFromCivil(SpeltYear(sp), sp.month - 1, sp.day)) * 24 + getHours(due)

\* The hour the specification's table gives.
TableHour(h, period) ==
  CASE period = "AM" /\ h = 12 -> 0
    [] period = "PM" /\ h = 12 -> 12
    [] period = "PM" /\ h # 12 -> h + 12
    [] period = "AM" /\ h # 12 -> h
    [] period = ""              -> h

\* C11: the parsed hour is the table's: 12 AM gives 0, 12 PM gives 12, PM otherwise
\* h + 12, AM otherwise h, no marker h, and no time 00:00; hours 1..12 with a marker
\* give an hour of 0..23.
C11_TwentyFourHours ==
  (Extracted /\ trial.spelt # NoSpelt /\ trial.spelt.minute \in 0..59) =>
     /\ HoursPastMidnight(trial.due, trial.spelt) = TableHour(trial.spelt.hour, trial.spelt.period)
     /\ getMinutes(trial.due) = trial.spelt.minute
     /\ ~trial.spelt.timed => (getHours(trial.due) = 0 /\ getMinutes(trial.due) = 0)
     /\ (trial.spelt.period # "" /\ trial.spelt.hour \in 1..12) =>
           /\ getHours(trial.due) = TableHour(trial.spelt.hour, trial.spelt.period)
           /\ getHours(trial.due) \in 0..23

C11_Witness ==
  /\ Extracted
  /\ trial.spelt.period = "AM"
  /\ trial.spelt.hour = 12
  /\ trial.spelt.day = 31
  /\ getHours(trial.due) = 0
  /\ CivilFromDays(trial.due.day).date = 31

(***************************************************************************)
(* The list on display.                                                    *)
(***************************************************************************)
ModeHolds(t, mode) ==
  CASE mode = "all"       -> TRUE
    [] mode = "active"    -> ~t.completed
    [] mode = "completed" -> t.completed

\* d is l with some elements left out.
IsSubsequence(d, l) ==
  \E f \in [DOMAIN d -> DOMAIN l] :
    /\ \A i, j \in DOMAIN d : i < j => f[i] < f[j]
    /\ \A i \in DOMAIN d : d[i] = l[f[i]]

Excluded(l, mode) == {i \in DOMAIN l : ~ModeHolds(l[i], mode)}

\* C12: the displayed list is a subsequence of the task list in its order, holds
\* exactly the tasks that satisfy the mode, and displayed plus excluded tasks number
\* the whole list.
C12_FilterProjection ==
  /\ filter \in Modes
  /\ IsSubsequence(filteredTasks(tasks, filter), tasks)
  /\ Range(filteredTasks(tasks, filter)) = {t \in Range(tasks) : ModeHolds(t, filter)}
  /\ Len(filteredTasks(tasks, filter)) + Cardinality(Excluded(tasks, filter)) = Len(tasks)

C12_Witness ==
  /\ filter = "active"
  /\ Len(tasks) = 2
  /\ tasks[1].completed
  /\ ~tasks[2].completed
  /\ filteredTasks(tasks, filter) = <<tasks[2]>>

\* C13: a load that fails leaves the local list as it was and sets no error state;
\* the local list changes only to the data of a load that succeeded.
C13_FailedLoadKeepsList ==
  [][/\ LoadFailed => (tasks' = tasks /\ mounted' = mounted /\ toast' = toast /\ timers' = timers)
     /\ tasks' # tasks =>
          \E i \in DOMAIN loads :
            loads[i].st = "served" /\ tasks' = loads[i].data /\ loads' = RemoveAt(loads, i)]_vars

\* The one load a write brought about is gone and the list is not the store's.
C13_Witness ==
  /\ mounted
  /\ writes = <<>>
  /\ loads = <<>>
  /\ tasks # <<>>
  /\ tasks # SelectDesc(store)

\* An insert call has its answer: it leaves the pending writes.
InsertAnswered ==
  \E i \in DOMAIN writes : writes[i].kind = "insert" /\ writes' = RemoveAt(writes, i)

\* C14: when the insert of addTask completes, with a row written or with none, the
\* input field of the mounted component is empty.
C14_InputCleared ==
  [][(InsertAnswered /\ mounted) => newTask' = <<>>]_vars

C14_Witness ==
  /\ mounted
  /\ newTask = <<>>
  /\ writes = <<>>
  /\ \E r \in store : r.text = <<"a">> /\ r.userDate = DueText

\* C15: addTask on an empty or blank input sends no insert and leaves the input
\* field, the task list, the editing state and the store as they were; an insert is
\* sent only for an input that is not blank.
C15_BlankIsNoOp ==
  [][/\ (AddTask /\ \A k \in DOMAIN newTask : IsSpace(newTask[k])) =>
          /\ writes' = writes /\ store' = store
          /\ newTask' = newTask /\ tasks' = tasks
          /\ editingId' = editingId /\ editingText' = editingText /\ editingDate' = editingDate
     /\ (Sent /\ writes'[Len(writes')].kind = "insert") =>
          \E k \in DOMAIN newTask : ~IsSpace(newTask[k])]_vars

\* addTask is the one thing done so far, on the empty input.
C15_Witness ==
  /\ ops = 1
  /\ newTask = <<>>
  /\ writes = <<>>
  /\ store = {}
  /\ mounted

\* A store call is waiting for its response.
Pending == writes # <<>> \/ loads # <<>>

\* C16: a tick that comes while a store call is waiting fires every task that is due
\* in the list the timer holds.
C16_TicksWhilePending ==
  [][(Tick /\ Pending) =>
       \A list \in Range(timers) : \A t \in Range(list) :
         IsDue(t, now, notified) => FiredNow(t.id)]_vars

\* C17: when no write and no load is waiting, the local list is the store's rows
\* ordered by id descending.
C17_Converges ==
  (mounted /\ writes = <<>> /\ loads = <<>>) => tasks = SelectDesc(store)

(***************************************************************************)
(* What toggleComplete and saveEdit send, and what the store makes of it.  *)
(***************************************************************************)
SentLast == writes'[Len(writes')]

\* The write q has its answer.
AnsweredWrite(q) == \E i \in DOMAIN writes : writes[i] = q /\ writes' = RemoveAt(writes, i)

SameIds == {r.id : r \in store'} = {r.id : r \in store}

\* C18: toggleComplete sends completed := not completed of the local copy for that id
\* and the store changes no text and no userDate and no other row; saveEdit sends the
\* edited text and userDate for its id and the store changes no completed and no
\* other row; neither handler nor the answer changes the local list or the fired set.
C18_DisjointFields ==
  [][/\ ToggleComplete =>
          /\ \E t \in Range(tasks) :
               SentLast = Request("toggle", t.id, <<>>, Null, ~t.completed)
          /\ tasks' = tasks /\ notified' = notified /\ store' = store
     /\ SaveEdit =>
          /\ SentLast.kind = "edit" /\ SentLast.id = editingId
          /\ SentLast.text = editingText /\ SentLast.userDate = editingDate
          /\ tasks' = tasks /\ notified' = notified /\ store' = store
     /\ \A q \in Range(writes) : (AnsweredWrite(q) /\ q.kind \in {"toggle", "edit"}) =>
          /\ SameIds
          /\ tasks' = tasks /\ notified' = notified
          /\ \A r \in store : \A n \in store' : n.id = r.id =>
               /\ r.id # q.id => n = r
               /\ q.kind = "toggle" =>
                    /\ n.text = r.text /\ n.userDate = r.userDate
                    /\ n.completed \in {r.completed, q.completed}
               /\ q.kind = "edit" =>
                    /\ n.completed = r.completed
                    /\ n.text \in {r.text, q.text} /\ n.userDate \in {r.userDate, q.userDate}]_vars

\* Task 2 has been completed in the store, with its text and date as they were, and
\* task 1 is as it was.
C18_Witness ==
  /\ Row(2, <<"c">>, DueText, TRUE) \in store
  /\ Row(1, <<"a">>, DueText, FALSE) \in store
  /\ writes = <<>>

(***************************************************************************)
(* Tasks typed with a time and no date.                                    *)
(***************************************************************************)
TimeOnly(text) == extractDateTime(text) = Null /\ extractTimeOnly(text) # Null

\* The instant the user wrote, on the day the stored date names.
WrittenAt(t) == parseUserDate(t.userDate \o <<" ">> \o extractTimeOnly(t.text))

Near(d, at) == TimeDiff(d, at) >= -5000 /\ TimeDiff(d, at) <= 5000

====
